---- MODULE Spec2Model ----
\* Model of the rewriting HTTP proxy of src/main.go: the /view/ handler
\* (target decoding, fetch, content classification, HTML rewrite, relay),
\* the control handler at "/" (rule list kept in the client's cookie) and
\* the link rewriting of rewriteAttr.
\*
\* Strings are sequences of tokens.  A token is one character ("/", "?",
\* "a", ...) or a word that never has to be taken apart ("view", "https").
EXTENDS Integers, Sequences, FiniteSets, TLC

VARIABLES
    cookie,     \* the client's cookie jar: the value of the "rules" cookie
    posted,     \* the {match, replace} pairs of the POSTs accepted so far
    req,        \* the request being served
    fetched,    \* the target handed to http.DefaultClient.Do by that request
    upstream,   \* what the upstream answered to that fetch
    out,        \* what the client got back
    cHref,      \* codec: an attribute value found in a page
    cPath,      \* codec: the inbound path of the page being rewritten
    cOut,       \* codec: the attribute value after rewriteAttr
    cReq,       \* codec: the request the client sends when following cOut
    cTarget,    \* codec: the target the /view/ handler decodes from cReq
    cpc         \* codec: how far the link has travelled

vars == <<cookie, posted, req, fetched, upstream, out,
          cHref, cPath, cOut, cReq, cTarget, cpc>>

serverVars == <<cookie, posted, req, fetched, upstream, out>>
codecVars == <<cHref, cPath, cOut, cReq, cTarget, cpc>>

----------------------------------------------------------------------------
\* Bounds of the model.

MaxRules == 2       \* accepted POSTs per client
MaxHrefLen == 5     \* tokens of a root-relative attribute value

----------------------------------------------------------------------------
\* strings

HasPrefix(s, p) == Len(s) >= Len(p) /\ SubSeq(s, 1, Len(p)) = p

Contains(s, t) == \E i \in 1..Len(s) : s[i] = t

\* index of the first token of s that is in set T, 0 when there is none
IndexAny(s, T) ==
    IF \E i \in 1..Len(s) : s[i] \in T
    THEN CHOOSE i \in 1..Len(s) : s[i] \in T /\ \A j \in 1..(i - 1) : s[j] \notin T
    ELSE 0

\* s cut at index i (0: no cut)
CutAt(s, i) ==
    [found |-> i > 0,
     sep |-> IF i > 0 THEN s[i] ELSE "",
     before |-> IF i > 0 THEN SubSeq(s, 1, i - 1) ELSE s,
     after |-> IF i > 0 THEN SubSeq(s, i + 1, Len(s)) ELSE <<>>]

\* strings.Cut(s, sep) for any separator of T
Cut(s, T) == CutAt(s, IndexAny(s, T))

\* strings.Split(s, "/")
RECURSIVE Split(_)
RECURSIVE SplitCut(_)
SplitCut(c) == IF c.found THEN <<c.before>> \o Split(c.after) ELSE <<c.before>>
Split(s) == SplitCut(Cut(s, {"/"}))

\* strings.Join(parts, "/")
RECURSIVE Join(_)
Join(parts) ==
    IF parts = <<>> THEN <<>>
    ELSE IF Len(parts) = 1 THEN parts[1]
    ELSE parts[1] \o <<"/">> \o Join(Tail(parts))

\* path.Clean of a rooted path: empty and "." segments are dropped, a ".."
\* segment drops the segment before it (and is itself dropped at the root).
RECURSIVE CleanSegs(_, _)
CleanSegs(segs, acc) ==
    IF segs = <<>> THEN acc
    ELSE IF Head(segs) = <<>> \/ Head(segs) = <<".">>
         THEN CleanSegs(Tail(segs), acc)
         ELSE IF Head(segs) = <<".", ".">>
              THEN CleanSegs(Tail(segs),
                             IF acc = <<>> THEN acc
                             ELSE SubSeq(acc, 1, Len(acc) - 1))
              ELSE CleanSegs(Tail(segs), Append(acc, Head(segs)))

Clean(p) == <<"/">> \o Join(CleanSegs(Split(p), <<>>))

\* path.Join(a, b) for non-empty a and b
PathJoin(a, b) == Clean(a \o <<"/">> \o b)

----------------------------------------------------------------------------
\* net/url as rewriteAttr uses it

\* unescaping of a path: "%3F" is an escaped "?"
Unescape(s) == [i \in 1..Len(s) |-> IF s[i] = "%3F" THEN "?" ELSE s[i]]

\* the authority and the path; "%zz" is not an escape, and the parse fails
ParseAuthority(frag, scheme, query, a) ==
    [ok |-> ~Contains(a.after, "%zz"),
     Scheme |-> scheme,
     Host |-> a.before,
     Path |-> IF a.found THEN <<"/">> \o Unescape(a.after) ELSE <<>>,
     RawQuery |-> query,
     Fragment |-> frag]

\* q: the rest cut at its first "?"; the authority follows the leading "//"
ParseQuery(frag, scheme, q) ==
    ParseAuthority(frag, scheme, q.after,
                   Cut(SubSeq(q.before, 3, Len(q.before)), {"/"}))

\* c: the URL without its fragment, cut at its first ":", "/" or "?"; there
\* is a scheme when that is a ":"
ParseScheme(frag, noFrag, c) ==
    ParseQuery(frag,
               IF c.sep = ":" THEN c.before ELSE <<>>,
               Cut(IF c.sep = ":" THEN c.after ELSE noFrag, {"?"}))

ParseNoFrag(f) == ParseScheme(f.after, f.before, Cut(f.before, {":", "/", "?"}))

\* url.Parse(href) for an href of the form [scheme:]//host[path][?query][#frag]
Parse(href) == ParseNoFrag(Cut(href, {"#"}))

----------------------------------------------------------------------------
\* rewriteAttr (src/main.go:178-199)

\* the branch for absolute and protocol-relative values
IsAbsolute(href) ==
    \/ HasPrefix(href, <<"http", ":", "/", "/">>)
    \/ HasPrefix(href, <<"https", ":", "/", "/">>)
    \/ HasPrefix(href, <<"/", "/">>)

\* fmt.Sprintf("/view/%s/%s%s", ...) followed by "?" query and "#" fragment
Encode(parsed) ==
    <<"/", "view", "/">>
    \o (IF Len(parsed.Scheme) = 0 THEN <<"https">> ELSE parsed.Scheme)
    \o <<"/">> \o parsed.Host \o parsed.Path
    \o (IF Len(parsed.RawQuery) > 0 THEN <<"?">> \o parsed.RawQuery ELSE <<>>)
    \o (IF Len(parsed.Fragment) > 0 THEN <<"#">> \o parsed.Fragment ELSE <<>>)

\* The absolute branch once url.Parse has returned: when it failed, parsed
\* is nil and reading parsed.Scheme panics before err is looked at.
Reencode(href, parsed) ==
    IF parsed.ok THEN [panic |-> FALSE, val |-> Encode(parsed)]
    ELSE [panic |-> TRUE, val |-> href]

\* the root-relative branch
ResolveRelative(href, urlPrefix) == PathJoin(urlPrefix, href)

\* the attribute value after rewriteAttr
rewriteAttr(href, urlPrefix) ==
    IF IsAbsolute(href) THEN Reencode(href, Parse(href))
    ELSE IF HasPrefix(href, <<"/">>)
         THEN [panic |-> FALSE, val |-> ResolveRelative(href, urlPrefix)]
         ELSE [panic |-> FALSE, val |-> href]

----------------------------------------------------------------------------
\* decoding of the inbound path by the /view/ handler (src/main.go:29-37)

\* parts[:4] is out of range for fewer than four parts
DecodePanics(path) == Len(Split(path)) < 4

urlPrefixOf(path) == Join(SubSeq(Split(path), 1, 4)) \o <<"/">>

\* faulty variant: the inbound query is not attached to the target
TargetOfNoQuery(parts, rawQuery) ==
    [Scheme |-> parts[3], Host |-> parts[4],
     Path |-> <<"/">> \o Join(SubSeq(parts, 5, Len(parts))),
     RawQuery |-> <<>>, Fragment |-> <<>>]

TargetOf(parts, rawQuery) ==
    [Scheme |-> parts[3], Host |-> parts[4],
     Path |-> <<"/">> \o Join(SubSeq(parts, 5, Len(parts))),
     RawQuery |-> rawQuery, Fragment |-> <<>>]

DecodeTarget(path, rawQuery) == TargetOf(Split(path), rawQuery)

RequestTarget(q) == [Path |-> q.before, RawQuery |-> q.after]

\* What reaches the handler as r.URL.Path and r.URL.RawQuery when the client
\* follows a link: the fragment stays with the client, the query starts at
\* the first "?".
RequestOf(link) == RequestTarget(Cut(Cut(link, {"#"}).before, {"?"}))

----------------------------------------------------------------------------
\* The link codec on its own: an attribute value of a page is rewritten, the
\* client follows the rewritten link, the /view/ handler decodes its target.

SeqsUpTo(S, n) == UNION {[1..k -> S] : k \in 0..n}

\* root-relative attribute values: "/", "/x", "/../x", "/./x/", ...
RelHrefs ==
    {h \in SeqsUpTo({"/", ".", "x"}, MaxHrefLen) :
        HasPrefix(h, <<"/">>) /\ ~HasPrefix(h, <<"/", "/">>)}

AbsPrefixes == {<<"http", ":", "/", "/">>, <<"https", ":", "/", "/">>, <<"/", "/">>}
AbsPaths == {<<>>, <<"/">>, <<"/", "x">>, <<"/", "x", "/", "y">>,
             <<"/", "x", "%3F", "y">>, <<"/", "%zz">>}
AbsQueries == {<<>>, <<"?", "q">>}
AbsFragments == {<<>>, <<"#", "f">>}

\* absolute and protocol-relative attribute values
AbsHrefs ==
    {s \o <<"h">> \o p \o q \o f :
        s \in AbsPrefixes, p \in AbsPaths, q \in AbsQueries, f \in AbsFragments}

\* values rewriteAttr leaves alone
OtherHrefs == {<<>>, <<"x">>, <<"#", "f">>, <<"mailto", ":", "x">>}

Hrefs == RelHrefs \cup AbsHrefs \cup OtherHrefs

\* inbound paths of pages, of the form /view/<scheme>/<host>/<path>
PagePaths == {<<"/", "view", "/", "https", "/", "h", "/">>,
              <<"/", "view", "/", "http", "/", "h", "/", "x", "/", "y">>}

NoTarget == [Scheme |-> <<>>, Host |-> <<>>, Path |-> <<>>,
             RawQuery |-> <<>>, Fragment |-> <<>>]
NoRequest == [Path |-> <<>>, RawQuery |-> <<>>]
NoAttr == [panic |-> FALSE, val |-> <<>>]

CodecIdle ==
    /\ cOut = NoAttr
    /\ cReq = NoRequest
    /\ cTarget = NoTarget
    /\ cpc = "page"

\* rewriteAttr called on one attribute of the page at cPath
CodecRewrite ==
    /\ cpc = "page"
    /\ cOut' = rewriteAttr(cHref, urlPrefixOf(cPath))
    /\ cpc' = IF cOut'.panic THEN "panicked" ELSE "rewritten"
    /\ UNCHANGED <<cHref, cPath, cReq, cTarget, serverVars>>

\* the client follows the rewritten link
CodecFollow ==
    /\ cpc = "rewritten"
    /\ HasPrefix(cOut.val, <<"/", "view", "/">>)
    /\ cReq' = RequestOf(cOut.val)
    /\ cpc' = "requested"
    /\ UNCHANGED <<cHref, cPath, cOut, cTarget, serverVars>>

\* the /view/ handler decodes the inbound path and raw query
CodecDecode ==
    /\ cpc = "requested"
    /\ IF DecodePanics(cReq.Path)
       THEN cpc' = "panicked" /\ UNCHANGED cTarget
       ELSE cpc' = "decoded" /\ cTarget' = DecodeTarget(cReq.Path, cReq.RawQuery)
    /\ UNCHANGED <<cHref, cPath, cOut, cReq, serverVars>>

----------------------------------------------------------------------------
\* Rules and the cookie that carries them (src/main.go:132-140, 157-176)

XFF == "\\xff"          \* a byte that is not valid UTF-8
UFFFD == "\\ufffd"      \* the Unicode replacement character

Rule(m, r) == [Match |-> m, Replace |-> r]

\* regexp.Compile succeeds: "(" is a missing closing parenthesis, and a
\* pattern must be valid UTF-8
CompileOk(pattern) == ~Contains(pattern, "(") /\ ~Contains(pattern, XFF)

\* json.Marshal writes a string coerced to valid UTF-8
Coerce(s) == [i \in 1..Len(s) |-> IF s[i] = XFF THEN UFFFD ELSE s[i]]

MarshalRule(rule) ==
    <<"{", "Match:", "\"">> \o Coerce(rule.Match) \o <<"\"", ",">>
    \o <<"Replace:", "\"">> \o Coerce(rule.Replace) \o <<"\"", "}">>

RECURSIVE MarshalRules(_)
MarshalRules(rules) ==
    IF Len(rules) = 1 THEN MarshalRule(rules[1])
    ELSE MarshalRule(rules[1]) \o <<",">> \o MarshalRules(Tail(rules))

\* json.Marshal(rules); a nil slice is written as null
Marshal(rules) ==
    IF rules = <<>> THEN <<"null">>
    ELSE <<"[">> \o MarshalRules(rules) \o <<"]">>

BadRule == [ok |-> FALSE, rule |-> Rule(<<>>, <<>>), rest |-> <<>>]

\* the value of "Replace", cut at its closing quote, and what follows it
UnmarshalReplace(m, c) ==
    IF c.found /\ HasPrefix(c.after, <<"}">>)
    THEN [ok |-> TRUE, rule |-> Rule(m, c.before), rest |-> Tail(c.after)]
    ELSE BadRule

\* the value of "Match", cut at its closing quote, and what follows it
UnmarshalMatch(c) ==
    IF c.found /\ HasPrefix(c.after, <<",", "Replace:", "\"">>)
    THEN UnmarshalReplace(c.before, Cut(SubSeq(c.after, 4, Len(c.after)), {"\""}))
    ELSE BadRule

\* One {"Match":"..","Replace":".."} object at the head of toks, as
\* [ok, rule, rest]
UnmarshalRule(toks) ==
    IF HasPrefix(toks, <<"{", "Match:", "\"">>)
    THEN UnmarshalMatch(Cut(SubSeq(toks, 4, Len(toks)), {"\""}))
    ELSE BadRule

\* the objects of the array, separated by "," and closed by "]"
RECURSIVE UnmarshalRules(_, _)
RECURSIVE UnmarshalNext(_, _)
UnmarshalNext(r, acc) ==
    IF ~r.ok THEN [ok |-> FALSE, rules |-> <<>>]
    ELSE IF r.rest = <<"]">> THEN [ok |-> TRUE, rules |-> Append(acc, r.rule)]
    ELSE IF HasPrefix(r.rest, <<",">>)
         THEN UnmarshalRules(Tail(r.rest), Append(acc, r.rule))
         ELSE [ok |-> FALSE, rules |-> <<>>]
UnmarshalRules(toks, acc) == UnmarshalNext(UnmarshalRule(toks), acc)

\* json.Unmarshal(cookieBody, &rules)
Unmarshal(toks) ==
    IF toks = <<"null">> \/ toks = <<"[", "]">> THEN [ok |-> TRUE, rules |-> <<>>]
    ELSE IF HasPrefix(toks, <<"[">>) THEN UnmarshalRules(Tail(toks), <<>>)
    ELSE [ok |-> FALSE, rules |-> <<>>]

\* base64.StdEncoding: every byte goes to its encoded form, and only encoded
\* forms decode
EncodeToString(bytes) == [i \in 1..Len(bytes) |-> <<"b64", bytes[i]>>]

DecodeString(value) ==
    IF \A i \in 1..Len(value) : value[i][1] = "b64"
    THEN [ok |-> TRUE, bytes |-> [i \in 1..Len(value) |-> value[i][2]]]
    ELSE [ok |-> FALSE, bytes |-> <<>>]

NoCookie == [set |-> FALSE, Value |-> <<>>]
Cookie(value) == [set |-> TRUE, Value |-> value]

\* the end of getRules: nil when json.Unmarshal failed
RulesOrNil(u) == IF u.ok THEN u.rules ELSE <<>>

\* the middle of getRules: nil when the value is not base64
DecodedRules(d) == IF d.ok THEN RulesOrNil(Unmarshal(d.bytes)) ELSE <<>>

\* getRules(r), from the "rules" cookie the request presents
getRules(ck) == IF ck.set THEN DecodedRules(DecodeString(ck.Value)) ELSE <<>>

----------------------------------------------------------------------------
\* Documents.  A body is a sequence of nodes, each a text node or an element
\* with at most one attribute; wrapped tells whether the bytes spell out the
\* html/head/body elements that the parser adds when they are missing.

Text(d) == [type |-> "text", data |-> d, tag |-> "", attr |-> "",
            val |-> <<>>, kids |-> <<>>]
Elem(t, a, v, k) == [type |-> "elem", data |-> <<>>, tag |-> t, attr |-> a,
                     val |-> v, kids |-> k]
Body(w, n) == [wrapped |-> w, nodes |-> n]

TokenLen(t) == IF t = UFFFD THEN 3 ELSE 1

RECURSIVE StrLen(_)
StrLen(s) == IF s = <<>> THEN 0 ELSE TokenLen(Head(s)) + StrLen(Tail(s))

RECURSIVE NodesLen(_)
NodesLen(nodes) ==
    IF nodes = <<>> THEN 0
    ELSE (IF Head(nodes).type = "text" THEN StrLen(Head(nodes).data)
          ELSE 2 + StrLen(Head(nodes).val) + NodesLen(Head(nodes).kids))
         + NodesLen(Tail(nodes))

\* len(buf)
ByteLen(body) == (IF body.wrapped THEN 6 ELSE 0) + NodesLen(body.nodes)

\* ReplaceAllString for a pattern that is a literal
RECURSIVE ReplaceAllString(_, _, _)
ReplaceAllString(src, pattern, repl) ==
    IF src = <<>> THEN <<>>
    ELSE IF HasPrefix(src, pattern)
         THEN repl \o ReplaceAllString(SubSeq(src, Len(pattern) + 1, Len(src)),
                                       pattern, repl)
         ELSE <<Head(src)>> \o ReplaceAllString(Tail(src), pattern, repl)

\* The loop over regexps on one text node (src/main.go:97-99), from rule i
\* on.  A rule that did not compile left a nil *Regexp in regexps, and
\* calling ReplaceAllString on it is a nil dereference.
RECURSIVE ApplyRulesFrom(_, _, _)
ApplyRulesFrom(data, rules, i) ==
    IF i > Len(rules) THEN [panic |-> FALSE, data |-> data]
    ELSE IF ~CompileOk(rules[i].Match) THEN [panic |-> TRUE, data |-> data]
    ELSE ApplyRulesFrom(ReplaceAllString(data, rules[i].Match, rules[i].Replace),
                        rules, i + 1)

\* faulty variant: the rules are applied from the last to the first
RECURSIVE ApplyRulesDown(_, _, _)
ApplyRulesDown(data, rules, i) ==
    IF i < 1 THEN [panic |-> FALSE, data |-> data]
    ELSE IF ~CompileOk(rules[i].Match) THEN [panic |-> TRUE, data |-> data]
    ELSE ApplyRulesDown(ReplaceAllString(data, rules[i].Match, rules[i].Replace),
                        rules, i - 1)

ApplyRulesBackwards(data, rules) == ApplyRulesDown(data, rules, Len(rules))

ApplyRules(data, rules) == ApplyRulesFrom(data, rules, 1)

\* the callback of Walk on one node: a text node gets the rules applied
Visit(n, rules) ==
    IF n.type = "text" THEN ApplyRules(n.data, rules)
    ELSE [panic |-> FALSE, data |-> n.data]

\* node n with its data, its children and its siblings after the walk
Walked(n, r, k, t) ==
    [panic |-> r.panic \/ k.panic \/ t.panic,
     nodes |-> <<[n EXCEPT !.data = r.data, !.kids = k.nodes]>> \o t.nodes]

\* Walk over the nodes with the text-node callback (src/main.go:94-102,
\* 150-155)
RECURSIVE Walk(_, _)
Walk(nodes, rules) ==
    IF nodes = <<>> THEN [panic |-> FALSE, nodes |-> <<>>]
    ELSE Walked(Head(nodes), Visit(Head(nodes), rules),
                Walk(Head(nodes).kids, rules), Walk(Tail(nodes), rules))

\* the attribute that the three Find(...).Each passes rewrite on a tag
AttrOf(tag) ==
    IF tag \in {"a", "link"} THEN "href"
    ELSE IF tag \in {"img", "script"} THEN "src"
    ELSE IF tag = "form" THEN "action"
    ELSE "none"

RewriteLink(n, urlPrefix) ==
    IF n.type = "elem" /\ n.attr = AttrOf(n.tag)
    THEN rewriteAttr(n.val, urlPrefix)
    ELSE [panic |-> FALSE, val |-> n.val]

\* node n with its attribute set (when the new value is not empty), its
\* children and its siblings after the passes
Linked(n, r, k, t) ==
    [panic |-> r.panic \/ k.panic \/ t.panic,
     nodes |-> <<[n EXCEPT !.val = IF Len(r.val) > 0 THEN r.val ELSE @,
                           !.kids = k.nodes]>> \o t.nodes]

\* the three Find(...).Each passes (src/main.go:84-92)
RECURSIVE RewriteLinks(_, _)
RewriteLinks(nodes, urlPrefix) ==
    IF nodes = <<>> THEN [panic |-> FALSE, nodes |-> <<>>]
    ELSE Linked(Head(nodes), RewriteLink(Head(nodes), urlPrefix),
                RewriteLinks(Head(nodes).kids, urlPrefix),
                RewriteLinks(Tail(nodes), urlPrefix))

\* the text walk on the document whose links were rewritten, and its
\* serialisation
RewriteTexts(links, texts) ==
    [panic |-> links.panic \/ texts.panic, buf |-> Body(TRUE, texts.nodes)]

RewriteWalk(links, rules) == RewriteTexts(links, Walk(links.nodes, rules))

\* The text/html branch of the /view/ handler (src/main.go:66-110): the body
\* is parsed (html, head and body are added when missing), links and text
\* are rewritten, and the document is serialised.
Rewrite(buf, urlPrefix, rules) ==
    RewriteWalk(RewriteLinks(buf.nodes, urlPrefix), rules)

----------------------------------------------------------------------------
\* Content classification (src/main.go:59-66)

\* mime.ParseMediaType of the Content-Type header: parameters are cut off,
\* the type is lower-cased, an absent or malformed header is an error
ParseMediaType(v) ==
    IF v \in {"text/html", "text/html; charset=utf-8", "Text/HTML"}
    THEN [ok |-> TRUE, type |-> "text/html"]
    ELSE IF v \in {"", "text/html; charset"}
         THEN [ok |-> FALSE, type |-> ""]
         ELSE [ok |-> TRUE, type |-> v]

\* http.DetectContentType(buf): the sniffed type carries its charset
DetectContentType(buf) ==
    IF buf.wrapped \/ (buf.nodes # <<>> /\ buf.nodes[1].type = "elem")
    THEN "text/html; charset=utf-8"
    ELSE "text/plain; charset=utf-8"

\* contentType after the err check on the parsed header
SniffUnless(parsed, buf) == IF parsed.ok THEN parsed.type ELSE DetectContentType(buf)

Classify(header, buf) == SniffUnless(ParseMediaType(header), buf)

\* faulty variant: the content type is compared by prefix
IsHTMLPrefix(contentType) ==
    contentType \in {"text/html", "text/html; charset=utf-8"}

\* contentType == "text/html"
IsHTML(contentType) == contentType = "text/html"

----------------------------------------------------------------------------
\* Responses

NoBody == Body(FALSE, <<>>)
ErrBody == Body(FALSE, <<Text(<<"error">>)>>)

\* status 0: the handler panicked and the server closed the connection
\* without a response.  cl is the Content-Length header the handler set,
\* -1 when it set none (the server then sends the length of what was
\* written).
Response(h, st, cl, csp, body, setCookie, rules) ==
    [handler |-> h, status |-> st, cl |-> cl, csp |-> csp, body |-> body,
     setCookie |-> setCookie, rules |-> rules]

NoResponse == Response("", 0, -1, FALSE, NoBody, NoCookie, <<>>)
Panicked(h) == Response(h, 0, -1, FALSE, NoBody, NoCookie, <<>>)
\* http.Error(w, err.Error(), code)
Error(h, code) == Response(h, code, -1, FALSE, ErrBody, NoCookie, <<>>)

NoFetch == [issued |-> FALSE, target |-> NoTarget]
Upstream(err, st, ct, hasCL, csp, body) ==
    [err |-> err, status |-> st, ct |-> ct, hasCL |-> hasCL, csp |-> csp,
     body |-> body]
NoUpstream == Upstream("", 0, "", FALSE, FALSE, NoBody)

\* faulty variant: the scheme is not looked at, any target with a host is
\* fetched
DoRefusesNoHost(target) == target.Host = <<>>

\* http.DefaultClient.Do refuses a URL whose scheme no transport is
\* registered for, and one without a host
DoRefuses(target) ==
    target.Scheme \notin {<<"http">>, <<"https">>} \/ target.Host = <<>>

\* w.Write(buf) after the upstream headers were copied (src/main.go:114-118):
\* a write that goes past a declared Content-Length is refused as a whole
Written(cl, buf) == IF cl # -1 /\ ByteLen(buf) > cl THEN NoBody ELSE buf

\* the upstream's Content-Length header, when it sent one
ContentLength(up) == IF up.hasCL THEN ByteLen(up.body) ELSE -1

\* The relay of the upstream response (src/main.go:112-118): the
\* Content-Security-Policy header is deleted, every other header is copied.
Relay(up, buf) ==
    Response("view", up.status, ContentLength(up), FALSE,
             Written(ContentLength(up), buf), NoCookie, <<>>)

\* The /view/ handler (src/main.go:28-119) on a request with the given
\* path, raw query and cookie, when the upstream answers up.

\* the request handed to http.DefaultClient.Do, if the handler gets there
ViewFetch(path, rawQuery) ==
    IF DecodePanics(path) THEN NoFetch
    ELSE [issued |-> TRUE, target |-> DecodeTarget(path, rawQuery)]

\* the end of the text/html branch: a panic, or the rewritten body relayed
RelayRewritten(up, rewritten) ==
    IF rewritten.panic THEN Panicked("view") ELSE Relay(up, rewritten.buf)

\* the handler from the classification of the body on
ViewBody(path, ck, up) ==
    IF IsHTML(Classify(up.ct, up.body))
    THEN RelayRewritten(up, Rewrite(up.body, urlPrefixOf(path), getRules(ck)))
    ELSE Relay(up, up.body)

\* the response the client gets
ViewHandler(path, rawQuery, ck, up) ==
    IF DecodePanics(path) THEN Panicked("view")
    ELSE IF DoRefuses(DecodeTarget(path, rawQuery)) \/ up.err # ""
         THEN Error("view", 500)
         ELSE ViewBody(path, ck, up)

\* faulty variant: the cookie is set before the pattern is validated
ControlWithCookieFirst(method, match, replace, rules) ==
    IF method = "POST"
    THEN Response("control", IF CompileOk(match) THEN 200 ELSE 400, -1, FALSE,
                  IF CompileOk(match) THEN NoBody ELSE ErrBody,
                  Cookie(EncodeToString(Marshal(
                      Append(rules, Rule(match, replace))))),
                  Append(rules, Rule(match, replace)))
    ELSE Response("control", 200, -1, FALSE, NoBody, NoCookie, rules)

\* faulty variant: the new rule replaces the list instead of extending it
ControlWithOnlyNew(method, match, replace, rules) ==
    IF method = "POST"
    THEN IF ~CompileOk(match)
         THEN Error("control", 400)
         ELSE Response("control", 200, -1, FALSE, NoBody,
                       Cookie(EncodeToString(Marshal(<<Rule(match, replace)>>))),
                       <<Rule(match, replace)>>)
    ELSE Response("control", 200, -1, FALSE, NoBody, NoCookie, rules)

\* the handler at "/" once rules := getRules(r) has run
ControlWith(method, match, replace, rules) ==
    IF method = "POST"
    THEN IF ~CompileOk(match)
         THEN Error("control", 400)
         ELSE Response("control", 200, -1, FALSE, NoBody,
                       Cookie(EncodeToString(Marshal(
                           Append(rules, Rule(match, replace))))),
                       Append(rules, Rule(match, replace)))
    ELSE Response("control", 200, -1, FALSE, NoBody, NoCookie, rules)

\* The handler at "/" (src/main.go:120-143)
ControlHandler(method, match, replace, ck) ==
    ControlWith(method, match, replace, getRules(ck))

----------------------------------------------------------------------------
\* The client and the upstream: what they may send

Matches == {<<"a">>, <<"b">>, <<"(">>}
Replaces == {<<"b">>, <<"c">>, <<XFF>>}

ViewPaths ==
    {<<"/", "view", "/">>,
     <<"/", "view", "/", "https">>,
     <<"/", "view", "/", "https", "/">>,
     <<"/", "view", "/", "ftp", "/", "h", "/", "x">>,
     <<"/", "view", "/", "https", "/", "h", "/", "x">>,
     <<"/", "view", "/", "http", "/", "h", "/">>}

\* cookies a client can make up: a rule list with a pattern that does not
\* compile, a value that is not base64, base64 of something that is not JSON
BadRuleCookie ==
    Cookie(EncodeToString(Marshal(<<Rule(<<"(">>, <<"c">>), Rule(<<"a">>, <<"b">>)>>)))
CraftedCookies ==
    {BadRuleCookie, Cookie(<<<<"raw", "!">>>>), Cookie(EncodeToString(<<"{">>))}

Bodies ==
    {Body(FALSE, <<Elem("a", "href", <<"/", "x">>, <<Text(<<"a", "b">>)>>)>>),
     Body(TRUE, <<Text(<<"a", "c">>), Elem("p", "", <<>>, <<Text(<<"b">>)>>)>>),
     Body(TRUE, <<Elem("img", "src", <<"http", ":", "/", "/", "h", "/", "x">>, <<>>)>>),
     Body(TRUE, <<Elem("a", "href", <<"http", ":", "/", "/", "h", "/", "%zz">>, <<>>)>>),
     Body(FALSE, <<Text(<<"a", "b", "a">>)>>),
     Body(TRUE, <<>>)}

ContentTypes == {"text/html", "text/html; charset=utf-8", "text/html; charset",
                 "", "application/json"}

Upstreams ==
    {Upstream("", 200, ct, hasCL, TRUE, b) :
        ct \in ContentTypes, hasCL \in BOOLEAN, b \in Bodies}
    \cup {Upstream("", 404, "text/html", FALSE, FALSE, ErrBody),
          Upstream("dial", 0, "", FALSE, FALSE, NoBody),
          Upstream("read", 0, "", FALSE, FALSE, NoBody)}

Request(h, method, path, ck, match, replace) ==
    [handler |-> h, method |-> method, path |-> path, cookie |-> ck,
     match |-> match, replace |-> replace]
NoReq == Request("", "", <<>>, NoCookie, <<>>, <<>>)

ServerIdle ==
    /\ cookie = NoCookie
    /\ posted = <<>>
    /\ req = NoReq
    /\ fetched = NoFetch
    /\ upstream = NoUpstream
    /\ out = NoResponse

\* the client keeps the cookie of a Set-Cookie header
Jar(old, response) == IF response.setCookie.set THEN response.setCookie ELSE old

\* POST / with the form fields match and replace
Post(match, replace) ==
    /\ req = NoReq
    /\ CompileOk(match) => Len(posted) < MaxRules
    /\ req' = Request("control", "POST", <<"/">>, cookie, match, replace)
    /\ out' = ControlHandler("POST", match, replace, cookie)
    /\ cookie' = Jar(cookie, out')
    /\ posted' = IF out'.status = 200 THEN Append(posted, Rule(match, replace))
                 ELSE posted
    /\ fetched' = NoFetch
    /\ upstream' = NoUpstream
    /\ UNCHANGED codecVars

\* GET /
Get(ck) ==
    /\ req = NoReq
    /\ req' = Request("control", "GET", <<"/">>, ck, <<>>, <<>>)
    /\ out' = ControlHandler("GET", <<>>, <<>>, ck)
    /\ cookie' = Jar(cookie, out')
    /\ fetched' = NoFetch
    /\ upstream' = NoUpstream
    /\ UNCHANGED <<posted, codecVars>>

\* the upstream is asked only when the handler gets as far as a fetch that
\* the client does not refuse
Reached(path) == ~DecodePanics(path) /\ ~DoRefuses(DecodeTarget(path, <<>>))

\* a request to /view/...
View(path, ck, up) ==
    /\ req = NoReq
    /\ up = NoUpstream <=> ~Reached(path)
    /\ req' = Request("view", "GET", path, ck, <<>>, <<>>)
    /\ fetched' = ViewFetch(path, <<>>)
    /\ out' = ViewHandler(path, <<>>, ck, up)
    /\ upstream' = up
    /\ cookie' = Jar(cookie, out')
    /\ UNCHANGED <<posted, codecVars>>

\* The handler has returned and the exchange is over: what belonged to the
\* request is gone, the cookie stays with the client.
Return ==
    /\ req # NoReq
    /\ req' = NoReq
    /\ fetched' = NoFetch
    /\ upstream' = NoUpstream
    /\ out' = NoResponse
    /\ UNCHANGED <<cookie, posted, codecVars>>

Init ==
    /\ ServerIdle
    /\ cHref = <<>>
    /\ cPath = <<"/", "view", "/", "https", "/", "h", "/">>
    /\ CodecIdle

Next ==
    \/ \E m \in Matches, r \in Replaces : Post(m, r)
    \/ \E ck \in {cookie} \cup CraftedCookies : Get(ck)
    \/ \E p \in ViewPaths, ck \in {cookie} \cup CraftedCookies,
          up \in Upstreams \cup {NoUpstream} : View(p, ck, up)
    \/ Return

Spec == Init /\ [][Next]_vars

InitCodec ==
    /\ ServerIdle
    /\ cHref \in Hrefs
    /\ cPath \in PagePaths
    /\ CodecIdle

NextCodec == CodecRewrite \/ CodecFollow \/ CodecDecode

SpecCodec == InitCodec /\ [][NextCodec]_vars

----------------------------------------------------------------------------
\* Properties

\* the data of the text nodes, in document order
RECURSIVE TextsOf(_)
TextsOf(nodes) ==
    IF nodes = <<>> THEN <<>>
    ELSE (IF Head(nodes).type = "text" THEN <<Head(nodes).data>> ELSE <<>>)
         \o TextsOf(Head(nodes).kids) \o TextsOf(Tail(nodes))

\* the rules whose pattern compiles, in order
ValidRules(rules) == LET ok(r) == CompileOk(r.Match) IN SelectSeq(rules, ok)

\* the upstream answered the request being served
Answered == req.handler = "view" /\ upstream # NoUpstream /\ upstream.err = ""

\* What one token becomes under the rules from rule i on, when every pattern
\* is a single token: the first rule that matches it replaces it, and only
\* later rules see the replacement.
RECURSIVE ChainTok(_, _, _)
RECURSIVE ChainStr(_, _, _)
ChainTok(t, rules, i) ==
    IF i > Len(rules) THEN <<t>>
    ELSE IF rules[i].Match = <<t>> THEN ChainStr(rules[i].Replace, rules, i + 1)
    ELSE ChainTok(t, rules, i + 1)
ChainStr(s, rules, i) ==
    IF s = <<>> THEN <<>>
    ELSE ChainTok(Head(s), rules, i) \o ChainStr(Tail(s), rules, i)

\* C1 (as claimed): when the rule list of a text/html request holds a rule
\* whose pattern does not compile, the request still completes with the
\* upstream's status and the page carries the remaining valid rules, applied
\* in order.
C1_BadRuleSkipped ==
    (/\ Answered
     /\ IsHTML(Classify(upstream.ct, upstream.body))
     /\ ~RewriteLinks(upstream.body.nodes, urlPrefixOf(req.path)).panic
     /\ \E i \in 1..Len(getRules(req.cookie)) :
            ~CompileOk(getRules(req.cookie)[i].Match))
    => /\ out.status = upstream.status
       /\ out.body.wrapped =>
            TextsOf(out.body.nodes)
            = [k \in 1..Len(TextsOf(upstream.body.nodes)) |->
                 ApplyRules(TextsOf(upstream.body.nodes)[k],
                            ValidRules(getRules(req.cookie))).data]

\* C2: a POST to the control endpoint whose match does not compile is
\* answered 400 without a Set-Cookie header, and the cookie the client holds
\* afterwards is the one it presented; no rule of it has the rejected match.
C2_InvalidPostRejected ==
    (req.handler = "control" /\ req.method = "POST" /\ ~CompileOk(req.match))
    => /\ out.status = 400
       /\ ~out.setCookie.set
       /\ cookie = req.cookie
       /\ \A i \in 1..Len(getRules(cookie)) : getRules(cookie)[i].Match # req.match

\* C2 witness: an invalid POST by a client that already holds rules
C2_Witness ==
    /\ req.handler = "control" /\ req.method = "POST"
    /\ ~CompileOk(req.match)
    /\ Len(getRules(req.cookie)) > 0

\* C3 (as claimed): a root-relative attribute value is rewritten to a value
\* that begins with the URL prefix /view/<scheme>/<host>/ of the page.
C3_StaysUnderPrefix ==
    (cpc # "page" /\ HasPrefix(cHref, <<"/">>) /\ ~IsAbsolute(cHref))
    => HasPrefix(cOut.val, urlPrefixOf(cPath))

\* C4 (as claimed): a /view/ request whose path splits into fewer than four
\* parts ends with an HTTP response.
C4_ShortPathAnswered ==
    (req.handler = "view" /\ Len(Split(req.path)) < 4) => out.status # 0

\* C5 (as claimed): the Content-Length header of a relayed response, if
\* any, is the byte length of the body written.
C5_ContentLengthMatchesBody ==
    (req.handler = "view" /\ out.status # 0 /\ out.cl # -1)
    => out.cl = ByteLen(out.body)

RoundTripped ==
    /\ cpc = "decoded"
    /\ IsAbsolute(cHref)
    /\ Parse(cHref).Scheme # <<>>
    /\ Parse(cHref).Host # <<>>

\* C7 (as claimed): encoding an absolute URL into a proxy path and decoding
\* that path gives back its scheme, host, path, query and fragment.
C7_RoundTrip ==
    RoundTripped
    => /\ cTarget.Scheme = Parse(cHref).Scheme
       /\ cTarget.Host = Parse(cHref).Host
       /\ cTarget.Path = Parse(cHref).Path
       /\ cTarget.RawQuery = Parse(cHref).RawQuery
       /\ cTarget.Fragment = Parse(cHref).Fragment

\* a path the proxy path carries unchanged: once unescaped it holds no "?",
\* "#" or "%", and it has no empty, "." or ".." segment
PlainPath(p) ==
    /\ \A i \in 1..Len(p) : p[i] \notin {"?", "#", "%"}
    /\ \A i \in 2..Len(Split(p)) :
        /\ Split(p)[i] \notin {<<".">>, <<".", ".">>}
        /\ i < Len(Split(p)) => Split(p)[i] # <<>>

\* C7 (amended): for a URL with such a path, the round trip gives back
\* scheme, host and query, and the path with an empty path decoded as "/";
\* the decoded target never has a fragment.
C7_RoundTripAmended ==
    (RoundTripped /\ PlainPath(Parse(cHref).Path))
    => /\ cTarget.Scheme = Parse(cHref).Scheme
       /\ cTarget.Host = Parse(cHref).Host
       /\ cTarget.Path = (IF Parse(cHref).Path = <<>> THEN <<"/">>
                          ELSE Parse(cHref).Path)
       /\ cTarget.RawQuery = Parse(cHref).RawQuery
       /\ cTarget.Fragment = <<>>

\* C7 witness: a URL with an empty path, a query and a fragment has made the
\* round trip
C7_Witness ==
    /\ RoundTripped
    /\ Parse(cHref).Path = <<>>
    /\ Parse(cHref).RawQuery # <<>>
    /\ Parse(cHref).Fragment # <<>>

\* C8 (as claimed): the rule list decoded from the client's cookie is exactly
\* the sequence of the accepted POSTs' {match, replace} pairs.
C8_CookieIsPosted == getRules(cookie) = posted

\* C8 (amended): the rule list decoded from the client's cookie has one rule
\* per accepted POST, in submission order, with the submitted match and with
\* the submitted replace in which every byte that is not valid UTF-8 has
\* become U+FFFD.
C8_CookieIsPostedCoerced ==
    /\ Len(getRules(cookie)) = Len(posted)
    /\ \A i \in 1..Len(posted) :
        /\ getRules(cookie)[i].Match = posted[i].Match
        /\ Len(getRules(cookie)[i].Replace) = Len(posted[i].Replace)
        /\ \A j \in 1..Len(posted[i].Replace) :
            getRules(cookie)[i].Replace[j]
            = (IF posted[i].Replace[j] = XFF THEN UFFFD ELSE posted[i].Replace[j])

\* C8 witness: a second, different rule has just been accepted
C8_Witness ==
    /\ req.method = "POST" /\ out.status = 200
    /\ Len(posted) = 2
    /\ posted[1] # posted[2]

\* a text/html response was rewritten and its body written to the client
Rewritten ==
    /\ Answered
    /\ IsHTML(Classify(upstream.ct, upstream.body))
    /\ out.status # 0
    /\ out.body.wrapped

\* C9: every text node of a rewritten page is the upstream's text with the
\* rules applied in list order, each to the output of the one before; with
\* the rules a->b, b->c a text that held a holds c and no b.
C9_RulesComposeInOrder ==
    Rewritten
    => /\ Len(TextsOf(out.body.nodes)) = Len(TextsOf(upstream.body.nodes))
       /\ \A k \in 1..Len(TextsOf(upstream.body.nodes)) :
            /\ TextsOf(out.body.nodes)[k]
               = ChainStr(TextsOf(upstream.body.nodes)[k], getRules(req.cookie), 1)
            /\ (/\ getRules(req.cookie)
                   = <<Rule(<<"a">>, <<"b">>), Rule(<<"b">>, <<"c">>)>>
                /\ Contains(TextsOf(upstream.body.nodes)[k], "a"))
               => /\ Contains(TextsOf(out.body.nodes)[k], "c")
                  /\ ~Contains(TextsOf(out.body.nodes)[k], "b")

\* C9 witness: a page with an a in a text node was rewritten under the rules
\* a->b, b->c
C9_Witness ==
    /\ Rewritten
    /\ getRules(req.cookie) = <<Rule(<<"a">>, <<"b">>), Rule(<<"b">>, <<"c">>)>>
    /\ \E k \in 1..Len(TextsOf(upstream.body.nodes)) :
        Contains(TextsOf(upstream.body.nodes)[k], "a")

\* C10: when the classified content type is not text/html, the body written
\* to the client is the upstream's body, whatever the client's rules.
C10_NonHTMLPassesThrough ==
    (Answered /\ Classify(upstream.ct, upstream.body) # "text/html")
    => out.body = upstream.body

\* C10 witness: a body sniffed as HTML (the sniffed type carries a charset),
\* with a text that a rule of the client matches, was relayed
C10_Witness ==
    /\ Answered
    /\ upstream.ct = ""
    /\ upstream.body.wrapped
    /\ Len(getRules(req.cookie)) > 0
    /\ \E k \in 1..Len(TextsOf(upstream.body.nodes)) :
        Contains(TextsOf(upstream.body.nodes)[k], "a")
    /\ getRules(req.cookie)[1].Match = <<"a">>

====
